---------------------------- MODULE Spec2Model ----------------------------
(***************************************************************************)
(* Liveness-gated capture pipeline of the registration page                *)
(* (src/frontend/register/camera.js, lines 1-262).                         *)
(*                                                                         *)
(* The page is a single-threaded event loop.  Every action below is one    *)
(* run-to-completion step of it: an event handler, a timer callback, or    *)
(* the part of an async function between two awaits.  The suspended parts  *)
(* (interval callbacks awaiting landmark inference, toBlob encodings, the  *)
(* fetch of registerUser, the three awaits of startLivenessCheck) are kept *)
(* in the state and resume in any order.                                   *)
(*                                                                         *)
(* EAR values are in hundredths (25 stands for 0.25); brightness is the    *)
(* 0..255 average returned by checkBrightness.                             *)
(***************************************************************************)
EXTENDS Integers, Sequences, FiniteSets, Bags, TLC

(***************************************************************************)
(* Bounds of the model                                                     *)
(***************************************************************************)
MaxRetakes == 1
MaxInFlight == 3
MaxPosts == 2

(***************************************************************************)
(* Program constants                                                       *)
(***************************************************************************)
MinCodeLength == 5
BlinkThreshold == 25
TOO_DARK == 50
GOOD_LIGHT == 80
\* access/camera.js 84-86: a displayed result is cleared after 5000 ms
\* (time is counted in seconds)
ClearDelay == 5
\* part_003 line 6
DefaultPageSize == 10

NoBlob == [id |-> 0]
NoEvent == [raised |-> FALSE, stale |-> FALSE, ear |-> 0, bright0 |-> 0, bright |-> 0]

(***************************************************************************)
(* Inputs: what the user types, what the camera shows                      *)
(***************************************************************************)
NoCode == << >>
RawCodes ==
    { <<"A", "B">>,
      <<"A", "B", "C", "D", "E">>,
      <<" ", "A", "B", "C", "D", " ">>,
      <<" ", "A", "B", "C", "D", "E", " ">> }

EarValues == {18, 25}
BrightValues == {40, 80}
\* a frame: the average EAR of each detected face (in detection order) and
\* the brightness checkBrightness computes on it
Frames == [faces : {<< >>} \cup {<<e>> : e \in EarValues}, bright : BrightValues]
\* what the video element holds before the stream delivers a frame
NoFrame == [faces |-> << >>, bright |-> 0]

Outcomes == {"ok", "okBadBody", "rejected", "networkError"}

VARIABLES
    \* script globals (camera.js 20-26)
    inviteCode, modelsLoaded, isBlinking, livenessConfirmed,
    blinkInterval, capturedBlob, brightnessCheckInterval,
    \* DOM
    step1Hidden, step2Hidden, stepPreviewHidden, step3Hidden,
    instruction, instructionClass, msg1, msg2, confirmDisabled, previewImg,
    alert,
    video,
    \* event loop
    pc, timers, nextId, timeouts, inflight, encoding, nextBlob, requests,
    \* environment
    frame,
    \* history
    round, clicks, posts, lastCapture, lastEvent, det, allDark, sent, moved,
    accepted,
    \* the access-check terminal (src/frontend/access/camera.js)
    stream, startBtnShown, checkBtnShown, checkBtnDisabled, resultDiv,
    terminalAlert, starting, encodingPhoto, checking, clearTimers, now,
    shownAt,
    \* the attendee list of the admin portal (src/unnamed/part_003)
    currentPage, pageSize, totalPages, attendeesData, attendeeSearch,
    loadingRowShown, pageLabel, prevPageDisabled, nextPageDisabled, toast,
    loads, backend, lastOp

globals == <<inviteCode, modelsLoaded, isBlinking, livenessConfirmed,
             blinkInterval, capturedBlob, brightnessCheckInterval>>
steps == <<step1Hidden, step2Hidden, stepPreviewHidden, step3Hidden>>
dom == <<steps, instruction, instructionClass, msg1, msg2, confirmDisabled,
         previewImg, alert, video>>
loop == <<pc, timers, nextId, timeouts, inflight, encoding, nextBlob, requests>>
history == <<round, clicks, posts, lastCapture, lastEvent, det, allDark,
             sent, moved, accepted>>
terminal == <<stream, startBtnShown, checkBtnShown, checkBtnDisabled,
              resultDiv, terminalAlert, starting, encodingPhoto, checking,
              clearTimers, now, shownAt>>
admin == <<currentPage, pageSize, totalPages, attendeesData, attendeeSearch,
           loadingRowShown, pageLabel, prevPageDisabled, nextPageDisabled,
           toast, loads, backend, lastOp>>
\* the three pages are separate documents and share no state
otherPages == <<terminal, admin>>
register == <<globals, dom, loop, frame, history>>
vars == <<register, otherPages>>

\* the terminal page as loaded, access/camera.js 1-6: no stream, the start
\* button shown, the check button not yet displayed (line 16 displays it)
TerminalLoaded ==
    /\ stream = "none"
    /\ startBtnShown = TRUE
    /\ checkBtnShown = FALSE
    /\ checkBtnDisabled = FALSE
    /\ resultDiv = ""
    /\ terminalAlert = ""
    /\ starting = 0
    /\ encodingPhoto = 0
    /\ checking = 0
    /\ clearTimers = {}
    /\ now = 0
    /\ shownAt = 0

\* the admin script as loaded, part_003 4-7, nothing requested yet and an
\* empty attendee list at the backend
AdminLoaded ==
    /\ currentPage = 1
    /\ pageSize = DefaultPageSize
    /\ totalPages = 1
    /\ attendeesData = << >>
    /\ attendeeSearch = ""
    /\ loadingRowShown = FALSE
    /\ pageLabel = [currentPage |-> 1, totalPages |-> 1]
    /\ prevPageDisabled = FALSE
    /\ nextPageDisabled = FALSE
    /\ toast = ""
    /\ loads = {}
    /\ backend = 0
    /\ lastOp = "none"

\* per-round history of the blink detector, reset when a retake restarts it
NewDet == [events |-> 0, lowSeen |-> FALSE, runLen |-> 0, runEvents |-> 0,
           suppressed |-> FALSE, heldLatch |-> FALSE]

(***************************************************************************)
(* String.prototype.trim on a sequence of characters                       *)
(***************************************************************************)
RECURSIVE TrimStart(_)
TrimStart(s) ==
    IF s # << >> /\ Head(s) = " " THEN TrimStart(Tail(s)) ELSE s

RECURSIVE TrimEnd(_)
TrimEnd(s) ==
    IF s # << >> /\ s[Len(s)] = " " THEN TrimEnd(SubSeq(s, 1, Len(s) - 1)) ELSE s

Trim(s) == TrimEnd(TrimStart(s))

(***************************************************************************)
(* Timers: setInterval / clearInterval on the set of active interval ids   *)
(***************************************************************************)
\* clearInterval that cancels nothing
ClearIntervalNoEffect(active, id) == active

ClearInterval(active, id) == active \ {[id |-> id, kind |-> "blink"], [id |-> id, kind |-> "brightness"]}

BlinkTimers == {t \in timers : t.kind = "blink"}
BrightnessTimers == {t \in timers : t.kind = "brightness"}

Init ==
    /\ inviteCode = NoCode
    /\ modelsLoaded = FALSE
    /\ isBlinking = FALSE
    /\ livenessConfirmed = FALSE
    /\ blinkInterval = 0
    /\ capturedBlob = NoBlob
    /\ brightnessCheckInterval = 0
    /\ step1Hidden = FALSE
    /\ step2Hidden = TRUE
    /\ stepPreviewHidden = TRUE
    /\ step3Hidden = TRUE
    /\ instruction = "initial"
    /\ instructionClass = {}
    /\ msg1 = ""
    /\ msg2 = ""
    /\ confirmDisabled = FALSE
    /\ previewImg = NoBlob
    /\ alert = ""
    /\ video = [srcObject |-> "none", paused |-> TRUE]
    /\ pc = "pageLoading"
    /\ timers = {}
    /\ nextId = 1
    /\ timeouts = 0
    /\ inflight = EmptyBag
    /\ encoding = EmptyBag
    /\ nextBlob = 1
    /\ requests = EmptyBag
    /\ frame = NoFrame
    /\ round = 0
    /\ clicks = 0
    /\ posts = 0
    /\ lastCapture = NoBlob
    /\ lastEvent = NoEvent
    /\ det = NewDet
    /\ allDark = TRUE
    /\ sent = NoBlob
    /\ moved = FALSE
    /\ accepted = FALSE
    /\ TerminalLoaded
    /\ AdminLoaded

(***************************************************************************)
(* CodeEntry: DOMContentLoaded deep link and the verify button             *)
(***************************************************************************)
\* the handler validating the length of the text as typed, not of the
\* trimmed code
verifyBtnClickUntrimmed(raw) ==
    /\ inviteCode' = Trim(raw)
    /\ IF Len(raw) < MinCodeLength
       THEN /\ msg1' = "Invalid code format"
            /\ pc' = "codeEntry"
            /\ UNCHANGED <<steps, instruction, instructionClass>>
       ELSE /\ step1Hidden' = TRUE
            /\ step2Hidden' = FALSE
            /\ instruction' = "Loading AI Models..."
            /\ UNCHANGED instructionClass
            /\ pc' = "loadDetector"
            /\ UNCHANGED <<msg1, stepPreviewHidden, step3Hidden>>
    /\ UNCHANGED <<modelsLoaded, isBlinking, livenessConfirmed, blinkInterval,
                   capturedBlob, brightnessCheckInterval, msg2, confirmDisabled,
                   previewImg, alert, video, timers, nextId, timeouts, inflight,
                   encoding, nextBlob, requests, frame, history,
                   otherPages>>

\* the handler validating the trimmed text but keeping the text as typed
verifyBtnClickKeepsRaw(raw) ==
    /\ inviteCode' = raw
    /\ IF Len(Trim(raw)) < MinCodeLength
       THEN /\ msg1' = "Invalid code format"
            /\ pc' = "codeEntry"
            /\ UNCHANGED <<steps, instruction, instructionClass>>
       ELSE /\ step1Hidden' = TRUE
            /\ step2Hidden' = FALSE
            /\ instruction' = "Loading AI Models..."
            /\ UNCHANGED instructionClass
            /\ pc' = "loadDetector"
            /\ UNCHANGED <<msg1, stepPreviewHidden, step3Hidden>>
    /\ UNCHANGED <<modelsLoaded, isBlinking, livenessConfirmed, blinkInterval,
                   capturedBlob, brightnessCheckInterval, msg2, confirmDisabled,
                   previewImg, alert, video, timers, nextId, timeouts, inflight,
                   encoding, nextBlob, requests, frame, history,
                   otherPages>>

\* verifyBtn click handler, camera.js 39-49, up to the first await of
\* startLivenessCheck (76-80)
verifyBtnClick(raw) ==
    /\ inviteCode' = Trim(raw)
    /\ IF Len(Trim(raw)) < MinCodeLength
       THEN /\ msg1' = "Invalid code format"
            /\ pc' = "codeEntry"
            /\ UNCHANGED <<steps, instruction, instructionClass>>
       ELSE /\ step1Hidden' = TRUE
            /\ step2Hidden' = FALSE
            /\ instruction' = "Loading AI Models..."
            /\ UNCHANGED instructionClass
            /\ pc' = "loadDetector"
            /\ UNCHANGED <<msg1, stepPreviewHidden, step3Hidden>>
    /\ UNCHANGED <<modelsLoaded, isBlinking, livenessConfirmed, blinkInterval,
                   capturedBlob, brightnessCheckInterval, msg2, confirmDisabled,
                   previewImg, alert, video, timers, nextId, timeouts, inflight,
                   encoding, nextBlob, requests, frame, history,
                   otherPages>>

\* DOMContentLoaded listener, camera.js 29-37
DOMContentLoaded(codeFromUrl) ==
    /\ pc = "pageLoading"
    /\ IF codeFromUrl # NoCode
       THEN verifyBtnClick(codeFromUrl)
       ELSE /\ pc' = "codeEntry"
            /\ UNCHANGED <<globals, dom, timers, nextId, timeouts, inflight,
                           encoding, nextBlob, requests, frame, history,
                           otherPages>>

\* the user types a code and clicks verify; the button is reachable while
\* step1 is displayed
VerifyClick(raw) ==
    /\ pc \in {"codeEntry"}
    /\ ~step1Hidden
    /\ verifyBtnClick(raw)

(***************************************************************************)
(* The two periodic tasks                                                  *)
(***************************************************************************)
\* startBrightnessMonitoring cancelling the previous interval and starting
\* none
startBrightnessMonitoringCancelOnly(active, current, id) ==
    IF current # 0 THEN ClearInterval(active, current) ELSE active

\* startBrightnessMonitoring, camera.js 186-189: the active intervals after
\* the call, given the ones before it, the value of brightnessCheckInterval
\* and the id setInterval returns
startBrightnessMonitoring(active, current, id) ==
    (IF current # 0 THEN ClearInterval(active, current) ELSE active)
        \cup {[id |-> id, kind |-> "brightness"]}

\* detectBlink, camera.js 101-108: the active intervals after the call
detectBlink(active, confirmed, current, id) ==
    IF confirmed
    THEN active
    ELSE (IF current # 0 THEN ClearInterval(active, current) ELSE active)
             \cup {[id |-> id, kind |-> "blink"]}

\* the two calls in sequence, as in onloadedmetadata (90-92) and in the
\* retake handler (64-66); confirmed is livenessConfirmed at the calls
StartDetectors(confirmed) ==
    /\ brightnessCheckInterval' = nextId
    /\ blinkInterval' = IF confirmed THEN blinkInterval ELSE nextId + 1
    /\ timers' = detectBlink(
                     startBrightnessMonitoring(timers, brightnessCheckInterval, nextId),
                     confirmed, blinkInterval, nextId + 1)
    /\ nextId' = IF confirmed THEN nextId + 1 ELSE nextId + 2

(***************************************************************************)
(* ModelLoading: startLivenessCheck, camera.js 76-99                       *)
(***************************************************************************)
\* the catch block showing the code step again for another attempt
StartFailedBackToCodeEntry ==
    /\ msg2' = "Error"
    /\ pc' = "codeEntry"
    /\ step1Hidden' = FALSE
    /\ step2Hidden' = TRUE
    /\ UNCHANGED <<globals, stepPreviewHidden, step3Hidden, instruction, instructionClass, msg1, confirmDisabled,
                   previewImg, alert, video, timers, nextId, timeouts,
                   inflight, encoding, nextBlob, requests, frame, history,
                   otherPages>>

\* catch block, 95-98
StartFailed ==
    /\ msg2' = "Error"
    /\ pc' = "failed"
    /\ UNCHANGED <<globals, steps, instruction, instructionClass, msg1, confirmDisabled,
                   previewImg, alert, video, timers, nextId, timeouts,
                   inflight, encoding, nextBlob, requests, frame, history,
                   otherPages>>

\* startLivenessCheck requesting the camera as soon as the face detector is
\* loaded, the landmark net left out
LoadDetectorDoneOnly(ok) ==
    /\ pc = "loadDetector"
    /\ IF ok
       THEN /\ pc' = "getUserMedia"
            /\ UNCHANGED <<globals, dom, timers, nextId, timeouts, inflight,
                           encoding, nextBlob, requests, frame, history,
                           otherPages>>
       ELSE StartFailed

\* await tinyFaceDetector.loadFromUri, line 80
LoadDetectorDone(ok) ==
    /\ pc = "loadDetector"
    /\ IF ok
       THEN /\ pc' = "loadLandmarks"
            /\ UNCHANGED <<globals, dom, timers, nextId, timeouts, inflight,
                           encoding, nextBlob, requests, frame, history,
                           otherPages>>
       ELSE StartFailed

\* await faceLandmark68TinyNet.loadFromUri, lines 81-85
LoadLandmarksDone(ok) ==
    /\ pc = "loadLandmarks"
    /\ IF ok
       THEN /\ modelsLoaded' = TRUE
            /\ pc' = "getUserMedia"
            /\ UNCHANGED <<inviteCode, isBlinking, livenessConfirmed,
                           blinkInterval, capturedBlob, brightnessCheckInterval,
                           dom, timers, nextId, timeouts, inflight, encoding,
                           nextBlob, requests, frame, history,
                           otherPages>>
       ELSE StartFailed

\* await getUserMedia, lines 85-93
GetUserMediaDone(ok) ==
    /\ pc = "getUserMedia"
    /\ IF ok
       THEN /\ video' = [video EXCEPT !.srcObject = "live"]
            /\ pc' = "awaitMetadata"
            /\ UNCHANGED <<globals, steps, instruction, instructionClass, msg1, msg2,
                           confirmDisabled, previewImg, alert, timers, nextId,
                           timeouts, inflight, encoding, nextBlob, requests,
                           frame, history,
                           otherPages>>
       ELSE StartFailed

\* video.onloadedmetadata, lines 89-93; the stream delivers its first frame
OnLoadedMetadata(f) ==
    /\ pc = "awaitMetadata"
    /\ pc' = "running"
    /\ video' = [video EXCEPT !.paused = FALSE]
    /\ StartDetectors(livenessConfirmed)
    /\ frame' = f
    /\ allDark' = (f.bright < TOO_DARK)
    /\ UNCHANGED <<inviteCode, modelsLoaded, isBlinking, livenessConfirmed,
                   capturedBlob, steps, instruction, instructionClass, msg1, msg2,
                   confirmDisabled, previewImg, alert, timeouts, inflight,
                   encoding, nextBlob, requests, round, clicks, posts,
                   lastCapture, lastEvent, det, sent, moved,
                   accepted, otherPages>>

\* the camera delivers the next frame; a paused or stopped video keeps
\* showing the frame it has
NewFrame(f) ==
    /\ pc = "running"
    /\ video.srcObject = "live"
    /\ ~video.paused
    /\ f # frame
    /\ frame' = f
    /\ allDark' = (allDark /\ f.bright < TOO_DARK)
    /\ moved' = (moved \/ timeouts > 0)
    /\ UNCHANGED <<globals, dom, loop, round, clicks, posts, lastCapture,
                   lastEvent, det, sent,
                   accepted, otherPages>>

(***************************************************************************)
(* Live(Detecting): the blink-polling callback, camera.js 108-148          *)
(***************************************************************************)
\* checkBrightness, camera.js 163-184, on the frame the video shows
checkBrightness(f) == f.bright

\* line 119 without the gate, as the callback was before lighting was checked
TooDarkUngated(brightness) == FALSE

\* line 119: the tick is suppressed
TooDark(brightness) == brightness < TOO_DARK

\* line 130 with the comparison off by one
IsBlinkInclusive(avgEAR) == avgEAR <= BlinkThreshold

\* line 130: the blink threshold
IsBlink(avgEAR) == avgEAR < BlinkThreshold

\* lines 130-131 without the latch
RaisesBlinkEventUnlatched(avgEAR, latch) == IsBlink(avgEAR)

\* lines 130-131: the tick raises the BlinkEvent
RaisesBlinkEvent(avgEAR, latch) == IsBlink(avgEAR) /\ ~latch

\* the guidance with the first threshold inclusive
GuidanceInclusive(brightness) ==
    IF brightness <= TOO_DARK THEN "Too Dark!"
    ELSE IF brightness < GOOD_LIGHT THEN "Lighting could be better"
    ELSE "Please look into the camera and blink"

\* lines 201-212: the guidance written for a brightness sample
Guidance(brightness) ==
    IF brightness < TOO_DARK THEN "Too Dark!"
    ELSE IF brightness < GOOD_LIGHT THEN "Lighting could be better"
    ELSE "Please look into the camera and blink"

\* lines 203-204, 207-208, 211: the classes of the instruction element after
\* the guidance for a brightness sample is written
GuidanceClass(brightness, classes) ==
    IF brightness < TOO_DARK THEN (classes \ {"error"}) \cup {"warning"}
    ELSE IF brightness < GOOD_LIGHT THEN (classes \ {"error"}) \cup {"warning"}
    ELSE classes \ {"warning", "error"}

\* History is kept only for the callbacks that can raise a BlinkEvent (a face
\* with EAR < 0.25): the frame brightness at the start of the inference and
\* the stale mark.  The other callbacks carry fixed history values, which no
\* property reads.
CanRaise(faces) == Len(faces) > 0 /\ faces[1] < 25

\* lines 108-111: the interval fires; the callback returns at once when
\* liveness is confirmed, else it starts the landmark inference on the
\* frame the video shows and is suspended until the inference completes
BlinkTickStart ==
    /\ BlinkTimers # {}
    /\ BagCardinality(inflight) < MaxInFlight
    /\ IF livenessConfirmed
       THEN UNCHANGED inflight
       ELSE inflight' = inflight (+) SetToBag({[stale |-> FALSE,
                                                faces |-> frame.faces,
                                                bright0 |-> IF CanRaise(frame.faces) THEN frame.bright ELSE 80]})
    /\ UNCHANGED <<globals, dom, pc, timers, nextId, timeouts, encoding,
                   nextBlob, requests, frame, history,
                   otherPages>>

\* the callback stopping the blink polling only when it raises the
\* BlinkEvent, line 138 left out
BlinkTickResumeKeepsAdvisor(t) ==
    /\ BagIn(t, inflight)
    /\ inflight' = inflight (-) SetToBag({t})
    /\ LET hasFace == Len(t.faces) > 0
           brightness == checkBrightness(frame)
           avgEAR == t.faces[1]
           evaluated == hasFace /\ ~TooDark(brightness)
           raise == evaluated /\ RaisesBlinkEvent(avgEAR, isBlinking)
           \* what the tick was, independently of what the code made of it
           dip == hasFace /\ t.faces[1] < 25
           lit == brightness >= 50
       IN  /\ IF raise
              THEN /\ isBlinking' = TRUE
                   /\ instruction' = "Blink Detected! Capturing..."
                   /\ instructionClass' = instructionClass \ {"warning", "error"}
                   /\ livenessConfirmed' = TRUE
                   /\ timers' = ClearInterval(timers, blinkInterval)
                   /\ timeouts' = timeouts + 1
                   /\ lastEvent' = [raised |-> TRUE, stale |-> t.stale,
                                    ear |-> avgEAR, bright0 |-> t.bright0,
                                    bright |-> brightness]
                   /\ moved' = FALSE
              ELSE /\ isBlinking' = IF evaluated /\ ~IsBlink(avgEAR)
                                    THEN FALSE ELSE isBlinking
                   /\ UNCHANGED <<instruction, instructionClass, livenessConfirmed, timers,
                                  timeouts, lastEvent, moved>>
           /\ det' = [events |-> det.events + (IF raise THEN 1 ELSE 0),
                      lowSeen |-> det.lowSeen \/ (dip /\ lit),
                      runLen |-> IF dip /\ lit THEN (IF det.runLen < 2 THEN det.runLen + 1 ELSE 2)
                                 ELSE IF hasFace /\ lit THEN 0 ELSE det.runLen,
                      runEvents |-> (IF hasFace /\ ~dip /\ lit THEN 0 ELSE det.runEvents)
                                    + (IF raise THEN 1 ELSE 0),
                      suppressed |-> dip /\ ~lit,
                      heldLatch |-> ~hasFace /\ isBlinking]
    /\ UNCHANGED <<inviteCode, modelsLoaded, blinkInterval, capturedBlob,
                   brightnessCheckInterval, steps, msg1, msg2, confirmDisabled,
                   previewImg, alert, video, pc, nextId, encoding, nextBlob,
                   requests, frame, round, clicks, posts, lastCapture, allDark,
                   sent,
                   accepted, otherPages>>

\* the callback clearing the latch also when no face is detected
BlinkTickResumeResetsLatch(t) ==
    /\ BagIn(t, inflight)
    /\ inflight' = inflight (-) SetToBag({t})
    /\ LET hasFace == Len(t.faces) > 0
           brightness == checkBrightness(frame)
           avgEAR == t.faces[1]
           evaluated == hasFace /\ ~TooDark(brightness)
           raise == evaluated /\ RaisesBlinkEvent(avgEAR, isBlinking)
           \* what the tick was, independently of what the code made of it
           dip == hasFace /\ t.faces[1] < 25
           lit == brightness >= 50
       IN  /\ IF raise
              THEN /\ isBlinking' = TRUE
                   /\ instruction' = "Blink Detected! Capturing..."
                   /\ instructionClass' = instructionClass \ {"warning", "error"}
                   /\ livenessConfirmed' = TRUE
                   /\ timers' = ClearInterval(ClearInterval(timers, blinkInterval),
                                              brightnessCheckInterval)
                   /\ timeouts' = timeouts + 1
                   /\ lastEvent' = [raised |-> TRUE, stale |-> t.stale,
                                    ear |-> avgEAR, bright0 |-> t.bright0,
                                    bright |-> brightness]
                   /\ moved' = FALSE
              ELSE /\ isBlinking' = IF ~hasFace \/ (evaluated /\ ~IsBlink(avgEAR))
                                    THEN FALSE ELSE isBlinking
                   /\ UNCHANGED <<instruction, instructionClass, livenessConfirmed, timers,
                                  timeouts, lastEvent, moved>>
           /\ det' = [events |-> det.events + (IF raise THEN 1 ELSE 0),
                      lowSeen |-> det.lowSeen \/ (dip /\ lit),
                      runLen |-> IF dip /\ lit THEN (IF det.runLen < 2 THEN det.runLen + 1 ELSE 2)
                                 ELSE IF hasFace /\ lit THEN 0 ELSE det.runLen,
                      runEvents |-> (IF hasFace /\ ~dip /\ lit THEN 0 ELSE det.runEvents)
                                    + (IF raise THEN 1 ELSE 0),
                      suppressed |-> dip /\ ~lit,
                      heldLatch |-> ~hasFace /\ isBlinking]
    /\ UNCHANGED <<inviteCode, modelsLoaded, blinkInterval, capturedBlob,
                   brightnessCheckInterval, steps, msg1, msg2, confirmDisabled,
                   previewImg, alert, video, pc, nextId, encoding, nextBlob,
                   requests, frame, round, clicks, posts, lastCapture, allDark,
                   sent,
                   accepted, otherPages>>

\* the callback reading the eyes of the last detected face
BlinkTickResumeLastFace(t) ==
    /\ BagIn(t, inflight)
    /\ inflight' = inflight (-) SetToBag({t})
    /\ LET hasFace == Len(t.faces) > 0
           brightness == checkBrightness(frame)
           avgEAR == t.faces[Len(t.faces)]
           evaluated == hasFace /\ ~TooDark(brightness)
           raise == evaluated /\ RaisesBlinkEvent(avgEAR, isBlinking)
           \* what the tick was, independently of what the code made of it
           dip == hasFace /\ t.faces[1] < 25
           lit == brightness >= 50
       IN  /\ IF raise
              THEN /\ isBlinking' = TRUE
                   /\ instruction' = "Blink Detected! Capturing..."
                   /\ instructionClass' = instructionClass \ {"warning", "error"}
                   /\ livenessConfirmed' = TRUE
                   /\ timers' = ClearInterval(ClearInterval(timers, blinkInterval),
                                              brightnessCheckInterval)
                   /\ timeouts' = timeouts + 1
                   /\ lastEvent' = [raised |-> TRUE, stale |-> t.stale,
                                    ear |-> avgEAR, bright0 |-> t.bright0,
                                    bright |-> brightness]
                   /\ moved' = FALSE
              ELSE /\ isBlinking' = IF evaluated /\ ~IsBlink(avgEAR)
                                    THEN FALSE ELSE isBlinking
                   /\ UNCHANGED <<instruction, instructionClass, livenessConfirmed, timers,
                                  timeouts, lastEvent, moved>>
           /\ det' = [events |-> det.events + (IF raise THEN 1 ELSE 0),
                      lowSeen |-> det.lowSeen \/ (dip /\ lit),
                      runLen |-> IF dip /\ lit THEN (IF det.runLen < 2 THEN det.runLen + 1 ELSE 2)
                                 ELSE IF hasFace /\ lit THEN 0 ELSE det.runLen,
                      runEvents |-> (IF hasFace /\ ~dip /\ lit THEN 0 ELSE det.runEvents)
                                    + (IF raise THEN 1 ELSE 0),
                      suppressed |-> dip /\ ~lit,
                      heldLatch |-> ~hasFace /\ isBlinking]
    /\ UNCHANGED <<inviteCode, modelsLoaded, blinkInterval, capturedBlob,
                   brightnessCheckInterval, steps, msg1, msg2, confirmDisabled,
                   previewImg, alert, video, pc, nextId, encoding, nextBlob,
                   requests, frame, round, clicks, posts, lastCapture, allDark,
                   sent,
                   accepted, otherPages>>

\* lines 111-147: the inference of tick t completes and the callback
\* resumes; the brightness is sampled now, on the frame the video shows now
BlinkTickResume(t) ==
    /\ BagIn(t, inflight)
    /\ inflight' = inflight (-) SetToBag({t})
    /\ LET hasFace == Len(t.faces) > 0
           brightness == checkBrightness(frame)
           avgEAR == t.faces[1]
           evaluated == hasFace /\ ~TooDark(brightness)
           raise == evaluated /\ RaisesBlinkEvent(avgEAR, isBlinking)
           \* what the tick was, independently of what the code made of it
           dip == hasFace /\ t.faces[1] < 25
           lit == brightness >= 50
       IN  /\ IF raise
              THEN /\ isBlinking' = TRUE
                   /\ instruction' = "Blink Detected! Capturing..."
                   /\ instructionClass' = instructionClass \ {"warning", "error"}
                   /\ livenessConfirmed' = TRUE
                   /\ timers' = ClearInterval(ClearInterval(timers, blinkInterval),
                                              brightnessCheckInterval)
                   /\ timeouts' = timeouts + 1
                   /\ lastEvent' = [raised |-> TRUE, stale |-> t.stale,
                                    ear |-> avgEAR, bright0 |-> t.bright0,
                                    bright |-> brightness]
                   /\ moved' = FALSE
              ELSE /\ isBlinking' = IF evaluated /\ ~IsBlink(avgEAR)
                                    THEN FALSE ELSE isBlinking
                   /\ UNCHANGED <<instruction, instructionClass, livenessConfirmed, timers,
                                  timeouts, lastEvent, moved>>
           /\ det' = [events |-> det.events + (IF raise THEN 1 ELSE 0),
                      lowSeen |-> det.lowSeen \/ (dip /\ lit),
                      runLen |-> IF dip /\ lit THEN (IF det.runLen < 2 THEN det.runLen + 1 ELSE 2)
                                 ELSE IF hasFace /\ lit THEN 0 ELSE det.runLen,
                      runEvents |-> (IF hasFace /\ ~dip /\ lit THEN 0 ELSE det.runEvents)
                                    + (IF raise THEN 1 ELSE 0),
                      suppressed |-> dip /\ ~lit,
                      heldLatch |-> ~hasFace /\ isBlinking]
    /\ UNCHANGED <<inviteCode, modelsLoaded, blinkInterval, capturedBlob,
                   brightnessCheckInterval, steps, msg1, msg2, confirmDisabled,
                   previewImg, alert, video, pc, nextId, encoding, nextBlob,
                   requests, frame, round, clicks, posts, lastCapture, allDark,
                   sent,
                   accepted, otherPages>>

(***************************************************************************)
(* The brightness-polling callback, camera.js 189-213                      *)
(***************************************************************************)
BrightnessTick ==
    /\ BrightnessTimers # {}
    /\ IF livenessConfirmed
       THEN /\ timers' = ClearInterval(timers, brightnessCheckInterval)
            /\ UNCHANGED <<instruction, instructionClass>>
       ELSE /\ instruction' = Guidance(checkBrightness(frame))
            /\ instructionClass' = GuidanceClass(checkBrightness(frame), instructionClass)
            /\ UNCHANGED timers
    /\ UNCHANGED <<globals, steps, msg1, msg2, confirmDisabled, previewImg,
                   alert, video, pc, nextId, timeouts, inflight, encoding,
                   nextBlob, requests, frame, history,
                   otherPages>>

(***************************************************************************)
(* Freezing: captureAndPreview, camera.js 217-235                          *)
(***************************************************************************)
\* the 500 ms timeout of line 141 fires: lines 217-223 draw the frame the
\* video shows now and start its encoding
CaptureTimeout ==
    /\ timeouts > 0
    /\ timeouts' = timeouts - 1
    /\ encoding' = encoding (+) SetToBag({[id |-> nextBlob]})
    /\ nextBlob' = nextBlob + 1
    /\ moved' = FALSE
    /\ UNCHANGED <<globals, dom, pc, timers, nextId, inflight, requests,
                   frame, round, clicks, posts, lastCapture, lastEvent, det,
                   allDark, sent,
                   accepted, otherPages>>

\* the toBlob callback, lines 223-234, showing the preview without keeping
\* the blob for upload
ToBlobCallbackNoStore(blob) ==
    /\ BagIn(blob, encoding)
    /\ encoding' = encoding (-) SetToBag({blob})
    /\ previewImg' = blob
    /\ video' = [video EXCEPT !.paused = TRUE]
    /\ step2Hidden' = TRUE
    /\ stepPreviewHidden' = FALSE
    /\ lastCapture' = blob
    /\ UNCHANGED <<globals, step1Hidden, step3Hidden, instruction, instructionClass, msg1,
                   msg2, confirmDisabled, alert, pc, timers, nextId, timeouts,
                   inflight, nextBlob, requests, frame, round, clicks, posts,
                   lastEvent, det, allDark, sent, moved,
                   accepted, otherPages>>

\* the toBlob callback, lines 223-234
ToBlobCallback(blob) ==
    /\ BagIn(blob, encoding)
    /\ encoding' = encoding (-) SetToBag({blob})
    /\ capturedBlob' = blob
    /\ previewImg' = blob
    /\ video' = [video EXCEPT !.paused = TRUE]
    /\ step2Hidden' = TRUE
    /\ stepPreviewHidden' = FALSE
    /\ lastCapture' = blob
    /\ UNCHANGED <<inviteCode, modelsLoaded, isBlinking, livenessConfirmed,
                   blinkInterval, brightnessCheckInterval, step1Hidden,
                   step3Hidden, instruction, instructionClass, msg1, msg2, confirmDisabled,
                   alert, pc, timers, nextId, timeouts, inflight, nextBlob,
                   requests, frame, round, clicks, posts, lastEvent, det,
                   allDark, sent, moved,
                   accepted, otherPages>>

\* the toBlob callback called with null (the canvas could not be encoded):
\* line 224 stores the null, URL.createObjectURL(null) of line 225 throws
\* and the rest of the callback does not run
ToBlobCallbackNull(e) ==
    /\ BagIn(e, encoding)
    /\ encoding' = encoding (-) SetToBag({e})
    /\ capturedBlob' = NoBlob
    /\ lastCapture' = NoBlob
    /\ UNCHANGED <<inviteCode, modelsLoaded, isBlinking, livenessConfirmed,
                   blinkInterval, brightnessCheckInterval, dom, pc, timers,
                   nextId, timeouts, inflight, nextBlob, requests, frame,
                   round, clicks, posts, lastEvent, det, allDark, sent,
                   moved, accepted, otherPages>>

\* the suspended callbacks of the round that ends: the code keeps no trace
\* of the round a callback belongs to; the mark is history
Superseded(ticks) ==
    LET old == BagToSet(ticks)
        new == {[t EXCEPT !.stale = CanRaise(t.faces)] : t \in old}
    IN  [n \in new |-> LET fresh == [n EXCEPT !.stale = FALSE]
                        IN  (IF n \in old THEN ticks[n] ELSE 0)
                            + (IF fresh \in old /\ fresh # n THEN ticks[fresh] ELSE 0)]

(***************************************************************************)
(* Frozen: retake and confirm, camera.js 52-73                             *)
(***************************************************************************)
\* the retake handler without the reset of the blinking latch (line 58)
RetakeClickKeepsLatch ==
    /\ ~stepPreviewHidden
    /\ round < MaxRetakes
    /\ stepPreviewHidden' = TRUE
    /\ step2Hidden' = FALSE
    /\ livenessConfirmed' = FALSE
    /\ isBlinking' = isBlinking
    /\ capturedBlob' = NoBlob
    /\ instruction' = "Please look into the camera and blink"
    /\ instructionClass' = instructionClass \ {"warning", "error"}
    /\ video' = [video EXCEPT !.paused = FALSE]
    /\ StartDetectors(FALSE)
    /\ round' = round + 1
    /\ det' = NewDet
    /\ lastEvent' = NoEvent
    /\ lastCapture' = NoBlob
    /\ sent' = NoBlob
    /\ inflight' = Superseded(inflight)
    /\ UNCHANGED <<inviteCode, modelsLoaded, step1Hidden, step3Hidden, msg1,
                   msg2, confirmDisabled, previewImg, alert, pc, timeouts,
                   encoding, nextBlob, requests, frame, clicks, posts,
                   allDark, moved,
                   accepted, otherPages>>

\* retakeBtn click handler, lines 52-67; the button is on the preview step
RetakeClick ==
    /\ ~stepPreviewHidden
    /\ round < MaxRetakes
    /\ stepPreviewHidden' = TRUE
    /\ step2Hidden' = FALSE
    /\ livenessConfirmed' = FALSE
    /\ isBlinking' = FALSE
    /\ capturedBlob' = NoBlob
    /\ instruction' = "Please look into the camera and blink"
    /\ instructionClass' = instructionClass \ {"warning", "error"}
    /\ video' = [video EXCEPT !.paused = FALSE]
    /\ StartDetectors(FALSE)
    /\ round' = round + 1
    /\ det' = NewDet
    /\ lastEvent' = NoEvent
    /\ lastCapture' = NoBlob
    /\ sent' = NoBlob
    /\ inflight' = Superseded(inflight)
    /\ UNCHANGED <<inviteCode, modelsLoaded, step1Hidden, step3Hidden, msg1,
                   msg2, confirmDisabled, previewImg, alert, pc, timeouts,
                   encoding, nextBlob, requests, frame, clicks, posts,
                   allDark, moved,
                   accepted, otherPages>>

\* the confirm handler with a registerUser that leaves the button enabled
\* (without line 243)
ConfirmClickKeepsEnabled ==
    /\ ~stepPreviewHidden
    /\ ~confirmDisabled
    /\ clicks < MaxPosts
    /\ clicks' = clicks + 1
    /\ IF capturedBlob # NoBlob
       THEN /\ confirmDisabled' = confirmDisabled
            /\ requests' = requests (+) SetToBag({[photo |-> capturedBlob,
                                                   code |-> inviteCode,
                                                   captured |-> lastCapture]})
            /\ posts' = posts + 1
            /\ sent' = capturedBlob
       ELSE UNCHANGED <<confirmDisabled, requests, posts, sent>>
    /\ UNCHANGED <<globals, steps, instruction, instructionClass, msg1, msg2, previewImg,
                   alert, video, pc, timers, nextId, timeouts, inflight,
                   encoding, nextBlob, frame, round, lastCapture, lastEvent,
                   det, allDark, moved,
                   accepted, otherPages>>

\* confirmBtn click handler, lines 69-73, and registerUser up to its
\* await, lines 237-247; a disabled button receives no click
ConfirmClick ==
    /\ ~stepPreviewHidden
    /\ ~confirmDisabled
    /\ clicks < MaxPosts
    /\ clicks' = clicks + 1
    /\ IF capturedBlob # NoBlob
       THEN /\ confirmDisabled' = TRUE
            /\ requests' = requests (+) SetToBag({[photo |-> capturedBlob,
                                                   code |-> inviteCode,
                                                   captured |-> lastCapture]})
            /\ posts' = posts + 1
            /\ sent' = capturedBlob
       ELSE UNCHANGED <<confirmDisabled, requests, posts, sent>>
    /\ UNCHANGED <<globals, steps, instruction, instructionClass, msg1, msg2, previewImg,
                   alert, video, pc, timers, nextId, timeouts, inflight,
                   encoding, nextBlob, frame, round, lastCapture, lastEvent,
                   det, allDark, moved,
                   accepted, otherPages>>

(***************************************************************************)
(* Submitting: the rest of registerUser, camera.js 247-261                 *)
(***************************************************************************)
\* registerUser sending the request again by itself when it failed
FetchResponseRetrying(r, outcome) ==
    /\ BagIn(r, requests)
    /\ accepted' = (accepted \/ outcome \in {"ok", "okBadBody"})
    /\ IF outcome = "ok"
       THEN /\ requests' = requests (-) SetToBag({r})
            /\ stepPreviewHidden' = TRUE
            /\ step3Hidden' = FALSE
            /\ video' = IF video.srcObject # "none"
                        THEN [video EXCEPT !.srcObject = "stopped"]
                        ELSE video
            /\ UNCHANGED <<alert, confirmDisabled, posts>>
       ELSE /\ posts < MaxPosts + 1
            /\ posts' = posts + 1
            /\ alert' = "Registration Error"
            /\ UNCHANGED <<requests, confirmDisabled, stepPreviewHidden,
                           step3Hidden, video>>
    /\ UNCHANGED <<globals, step1Hidden, step2Hidden, instruction, instructionClass, msg1,
                   msg2, previewImg, pc, timers, nextId, timeouts, inflight,
                   encoding, nextBlob, frame, round, clicks, lastCapture,
                   lastEvent, det, allDark, sent, moved,
                   otherPages>>

\* registerUser releasing the camera once the request settles, whatever the
\* outcome
FetchResponseReleaseAlways(r, outcome) ==
    /\ BagIn(r, requests)
    /\ accepted' = (accepted \/ outcome \in {"ok", "okBadBody"})
    /\ requests' = requests (-) SetToBag({r})
    /\ video' = IF video.srcObject # "none"
                THEN [video EXCEPT !.srcObject = "stopped"]
                ELSE video
    /\ IF outcome = "ok"
       THEN /\ stepPreviewHidden' = TRUE
            /\ step3Hidden' = FALSE
            /\ UNCHANGED <<alert, confirmDisabled>>
       ELSE /\ alert' = "Registration Error"
            /\ confirmDisabled' = FALSE
            /\ UNCHANGED <<stepPreviewHidden, step3Hidden>>
    /\ UNCHANGED <<globals, step1Hidden, step2Hidden, instruction, instructionClass, msg1,
                   msg2, previewImg, pc, timers, nextId, timeouts, inflight,
                   encoding, nextBlob, frame, round, clicks, posts, lastCapture,
                   lastEvent, det, allDark, sent, moved,
                   otherPages>>

\* the fetch of request r settles: "ok" is a 2xx response with a JSON body,
\* "okBadBody" a 2xx response whose body response.json() rejects,
\* "rejected" a non-2xx response, "networkError" a rejected fetch
FetchResponse(r, outcome) ==
    /\ BagIn(r, requests)
    /\ accepted' = (accepted \/ outcome \in {"ok", "okBadBody"})
    /\ requests' = requests (-) SetToBag({r})
    /\ IF outcome = "ok"
       THEN /\ stepPreviewHidden' = TRUE
            /\ step3Hidden' = FALSE
            /\ video' = IF video.srcObject # "none"
                        THEN [video EXCEPT !.srcObject = "stopped"]
                        ELSE video
            /\ UNCHANGED <<alert, confirmDisabled>>
       ELSE /\ alert' = "Registration Error"
            /\ confirmDisabled' = FALSE
            /\ UNCHANGED <<stepPreviewHidden, step3Hidden, video>>
    /\ UNCHANGED <<globals, step1Hidden, step2Hidden, instruction, instructionClass, msg1,
                   msg2, previewImg, pc, timers, nextId, timeouts, inflight,
                   encoding, nextBlob, frame, round, clicks, posts, lastCapture,
                   lastEvent, det, allDark, sent, moved,
                   otherPages>>

Next ==
    \/ \E c \in RawCodes \cup {NoCode} : DOMContentLoaded(c)
    \/ \E c \in RawCodes : VerifyClick(c)
    \/ \E ok \in BOOLEAN : LoadDetectorDone(ok)
    \/ \E ok \in BOOLEAN : LoadLandmarksDone(ok)
    \/ \E ok \in BOOLEAN : GetUserMediaDone(ok)
    \/ \E f \in Frames : OnLoadedMetadata(f)
    \/ \E f \in Frames : NewFrame(f)
    \/ BlinkTickStart
    \/ \E t \in BagToSet(inflight) : BlinkTickResume(t)
    \/ BrightnessTick
    \/ CaptureTimeout
    \/ \E b \in BagToSet(encoding) : ToBlobCallback(b)
    \/ \E e \in BagToSet(encoding) : ToBlobCallbackNull(e)
    \/ RetakeClick
    \/ ConfirmClick
    \/ \E r \in BagToSet(requests), o \in Outcomes : FetchResponse(r, o)

Spec == Init /\ [][Next]_vars

(***************************************************************************)
(* The page under the scheduling of the browser: a timeout that was set    *)
(* fires (camera.js 141), and a canvas.toBlob that was started calls back, *)
(* with a blob or with null (camera.js 223).                               *)
(***************************************************************************)
EncodingDone ==
    \E e \in BagToSet(encoding) : ToBlobCallback(e) \/ ToBlobCallbackNull(e)

SpecFair ==
    /\ Init
    /\ [][Next]_vars
    /\ WF_vars(CaptureTimeout)
    /\ WF_vars(EncodingDone)

(***************************************************************************)
(* The LightingAdvisor over the whole range of brightness samples: the     *)
(* page right after onloadedmetadata (a code from the link was accepted,   *)
(* both intervals were just started), the camera delivering frames of any  *)
(* brightness 0..255, the brightness-polling callback sampling them.       *)
(***************************************************************************)
Samples == 0 .. 255
AdvisorFrames == [faces : {<< >>}, bright : Samples]

\* the page right after onloadedmetadata, showing one of the given frames
DetectionStarted(frames) ==
    /\ inviteCode = <<"A", "B", "C", "D", "E">>
    /\ modelsLoaded = TRUE
    /\ isBlinking = FALSE
    /\ livenessConfirmed = FALSE
    /\ blinkInterval = 2
    /\ capturedBlob = NoBlob
    /\ brightnessCheckInterval = 1
    /\ step1Hidden = TRUE
    /\ step2Hidden = FALSE
    /\ stepPreviewHidden = TRUE
    /\ step3Hidden = TRUE
    /\ instruction = "Loading AI Models..."
    /\ instructionClass = {}
    /\ msg1 = ""
    /\ msg2 = ""
    /\ confirmDisabled = FALSE
    /\ previewImg = NoBlob
    /\ alert = ""
    /\ video = [srcObject |-> "live", paused |-> FALSE]
    /\ pc = "running"
    /\ timers = {[id |-> 1, kind |-> "brightness"], [id |-> 2, kind |-> "blink"]}
    /\ nextId = 3
    /\ timeouts = 0
    /\ inflight = EmptyBag
    /\ encoding = EmptyBag
    /\ nextBlob = 1
    /\ requests = EmptyBag
    /\ frame \in frames
    /\ round = 0
    /\ clicks = 0
    /\ posts = 0
    /\ lastCapture = NoBlob
    /\ lastEvent = NoEvent
    /\ det = NewDet
    /\ allDark = (frame.bright < TOO_DARK)
    /\ sent = NoBlob
    /\ moved = FALSE
    /\ accepted = FALSE
    /\ TerminalLoaded
    /\ AdminLoaded

InitAdvisor == DetectionStarted(AdvisorFrames)

NextAdvisor ==
    \/ \E f \in AdvisorFrames : NewFrame(f)
    \/ BrightnessTick

SpecAdvisor == InitAdvisor /\ [][NextAdvisor]_vars

(***************************************************************************)
(* The arithmetic of checkBrightness, camera.js 163-184, on the pixel data *)
(* of small images.  The weights are in thousandths (299 stands for        *)
(* 0.299) and the result is kept as the exact fraction num / den, in       *)
(* thousandths as well.                                                    *)
(***************************************************************************)
MaxPixels == 21

Colours == {<<0, 0, 0>>, <<255, 0, 0>>, <<255, 255, 255>>}

\* imageData.data of an image of n pixels, four bytes (R, G, B, A) per
\* pixel: the first ten pixels have colour c0, the others colour c1
ImageData(n, c0, c1) ==
    [k \in 1 .. 4 * n |->
        LET c == IF (k - 1) \div 4 < 10 THEN c0 ELSE c1
        IN  IF (k - 1) % 4 = 3 THEN 255 ELSE c[((k - 1) % 4) + 1]]

\* lines 171-180: the loop for (i = 0; i < data.length; i += 40), from
\* index i on (data[i] of the script is data[i + 1] here)
RECURSIVE brightnessSum(_, _)
brightnessSum(data, i) ==
    IF i < Len(data)
    THEN 299 * data[i + 1] + 587 * data[i + 2] + 114 * data[i + 3]
             + brightnessSum(data, i + 40)
    ELSE 0

\* lines 182-183: brightnessSum / (data.length / 40), as a fraction
avgBrightness(data) ==
    [num |-> 40 * brightnessSum(data, 0), den |-> Len(data)]

\* the frame with the given pixel data and the sample checkBrightness
\* returns on it (its integer part, which decides the same comparisons
\* with 50 and 80)
PixelFrame(data) ==
    [faces |-> << >>,
     bright |-> avgBrightness(data).num \div (1000 * avgBrightness(data).den),
     data |-> data]

PixelFrames ==
    {PixelFrame(ImageData(n, c0, c1)) : n \in 1 .. MaxPixels, c0 \in Colours, c1 \in Colours}

InitPixels == DetectionStarted(PixelFrames)

NextPixels ==
    \/ \E f \in PixelFrames : NewFrame(f)
    \/ BrightnessTick

SpecPixels == InitPixels /\ [][NextPixels]_vars

(***************************************************************************)
(* The blink-polling callback on frames with several faces: detection has  *)
(* just started and the camera shows frames with no face or with two, in   *)
(* detection order.                                                        *)
(***************************************************************************)
TwoFaceFrames ==
    [faces : {<< >>} \cup {<<a, b>> : a \in EarValues, b \in EarValues},
     bright : BrightValues]

InitFaces == DetectionStarted(TwoFaceFrames)

NextFaces ==
    \/ \E f \in TwoFaceFrames : NewFrame(f)
    \/ BlinkTickStart
    \/ \E t \in BagToSet(inflight) : BlinkTickResume(t)

SpecFaces == InitFaces /\ [][NextFaces]_vars

(***************************************************************************)
(* The access-check terminal, src/frontend/access/camera.js: the start     *)
(* button, the check button, the result display and its clear timers.     *)
(* Time is a clock of whole seconds; a timeout that is due fires before    *)
(* the clock advances.                                                     *)
(***************************************************************************)
MaxStarts == 1
MaxTime == 7

\* the outcomes of one access check: the answer parsed and displayed with
\* status OK or with another status, or an error (rejected fetch, a body
\* that is not JSON, an answer displayResult cannot render)
CheckOutcomes == {"OK", "NO", "error"}

\* startBtn click handler up to its await, lines 8-10
startBtnClick ==
    /\ startBtnShown
    /\ starting < MaxStarts
    /\ starting' = starting + 1
    /\ UNCHANGED <<stream, startBtnShown, checkBtnShown, checkBtnDisabled,
                   resultDiv, terminalAlert, encodingPhoto, checking,
                   clearTimers, now, shownAt, register, admin>>

\* getUserMedia settles, lines 10-19
StartCameraDone(ok) ==
    /\ starting > 0
    /\ starting' = starting - 1
    /\ IF ok
       THEN /\ stream' = "live"
            /\ startBtnShown' = FALSE
            /\ checkBtnShown' = TRUE
            /\ UNCHANGED terminalAlert
       ELSE /\ terminalAlert' = "Error accessing camera"
            /\ UNCHANGED <<stream, startBtnShown, checkBtnShown>>
    /\ UNCHANGED <<checkBtnDisabled, resultDiv, encodingPhoto, checking,
                   clearTimers, now, shownAt, register, admin>>

\* checkBtn click handler, lines 22-37; a disabled or undisplayed button
\* receives no click
checkBtnClick ==
    /\ checkBtnShown
    /\ ~checkBtnDisabled
    /\ checkBtnDisabled' = TRUE
    /\ resultDiv' = ""
    /\ shownAt' = 0
    /\ encodingPhoto' = encodingPhoto + 1
    /\ UNCHANGED <<stream, startBtnShown, checkBtnShown, terminalAlert,
                   starting, checking, clearTimers, now, register, admin>>

\* displayResult, lines 65-87: the result is shown and a timeout is set
\* to clear the display; the timeout is not kept and never cancelled
displayResult(status) ==
    /\ resultDiv' = status
    /\ shownAt' = now
    /\ clearTimers' = clearTimers \cup {now + ClearDelay}

\* the catch block of checkAccess, lines 52-58
displayError ==
    /\ resultDiv' = "ERROR"
    /\ shownAt' = now
    /\ UNCHANGED clearTimers

\* the toBlob callback and checkAccess up to its await, lines 34-47;
\* FormData.append rejects a null blob, which ends in catch and finally
checkAccessStart(hasBlob) ==
    /\ encodingPhoto > 0
    /\ encodingPhoto' = encodingPhoto - 1
    /\ IF hasBlob
       THEN /\ checking' = checking + 1
            /\ UNCHANGED <<checkBtnDisabled, resultDiv, shownAt, clearTimers>>
       ELSE /\ displayError
            /\ checkBtnDisabled' = FALSE
            /\ UNCHANGED checking
    /\ UNCHANGED <<stream, startBtnShown, checkBtnShown, terminalAlert,
                   starting, now, register, admin>>

\* checkAccess re-enabling the check button only after a displayed answer
\* (lines 60-61 moved from finally to the end of try)
checkAccessDoneNoFinally(outcome) ==
    /\ checking > 0
    /\ checking' = checking - 1
    /\ IF outcome = "error"
       THEN displayError /\ UNCHANGED checkBtnDisabled
       ELSE displayResult(outcome) /\ checkBtnDisabled' = FALSE
    /\ UNCHANGED <<stream, startBtnShown, checkBtnShown, terminalAlert,
                   starting, encodingPhoto, now, register, admin>>

\* the rest of checkAccess, lines 47-62
checkAccessDone(outcome) ==
    /\ checking > 0
    /\ checking' = checking - 1
    /\ IF outcome = "error"
       THEN displayError
       ELSE displayResult(outcome)
    /\ checkBtnDisabled' = FALSE
    /\ UNCHANGED <<stream, startBtnShown, checkBtnShown, terminalAlert,
                   starting, encodingPhoto, now, register, admin>>

\* the timeout callback of displayResult, lines 84-86
ClearTimeout(due) ==
    /\ due \in clearTimers
    /\ due <= now
    /\ clearTimers' = clearTimers \ {due}
    /\ resultDiv' = ""
    /\ shownAt' = 0
    /\ UNCHANGED <<stream, startBtnShown, checkBtnShown, checkBtnDisabled,
                   terminalAlert, starting, encodingPhoto, checking, now,
                   register, admin>>

\* one second passes
Tick ==
    /\ now < MaxTime
    /\ \A due \in clearTimers : due > now
    /\ now' = now + 1
    /\ UNCHANGED <<stream, startBtnShown, checkBtnShown, checkBtnDisabled,
                   resultDiv, terminalAlert, starting, encodingPhoto,
                   checking, clearTimers, shownAt, register, admin>>

NextTerminal ==
    \/ startBtnClick
    \/ \E ok \in BOOLEAN : StartCameraDone(ok)
    \/ checkBtnClick
    \/ \E hasBlob \in BOOLEAN : checkAccessStart(hasBlob)
    \/ \E o \in CheckOutcomes : checkAccessDone(o)
    \/ \E due \in clearTimers : ClearTimeout(due)
    \/ Tick

SpecTerminal == Init /\ [][NextTerminal]_vars

(***************************************************************************)
(* The attendee list of the admin portal, src/unnamed/part_003: the page   *)
(* asks the backend for one page of attendees at a time.  The backend is   *)
(* the environment: it holds attendees 1 .. backend and answers a request  *)
(* with the slice the query of line 225 asks for.                          *)
(***************************************************************************)
MaxAttendees == 6
MaxLoads == 2

\* the values of the page-size select and of the search box that are tried
PageSizeOptions == {5, DefaultPageSize}
SearchTerms == {"", "zz"}
LoadOutcomes == {"ok", "mock", "failed"}

Attendees(n) == [i \in 1 .. n |-> i]

\* the attendees a search term selects: all for the empty term, none for a
\* term no attendee matches
Matching(n, term) == IF term = "" THEN Attendees(n) ELSE << >>

\* the answer to ?skip=..&limit=.. over a list
Slice(list, skip, limit) ==
    SubSeq(list, skip + 1, IF skip + limit < Len(list) THEN skip + limit ELSE Len(list))

\* Math.ceil(a / b) for a >= 0, b > 0
Ceil(a, b) == (a + b - 1) \div b

\* getMockAttendees, lines 746-763: ten attendees
getMockAttendees == Attendees(10)

\* loadAttendees up to its await, lines 208-233: the request is built from
\* the page, the page size and the search box as they are at the call
loadAttendees(page, size, term) ==
    /\ Cardinality(loads) < MaxLoads
    /\ loadingRowShown' = TRUE
    /\ loads' = loads \cup {[skip |-> (page - 1) * size, limit |-> size,
                              search |-> term]}

\* the attendees section is opened, lines 29 and 91-92
ShowAttendees ==
    /\ loadAttendees(currentPage, pageSize, attendeeSearch)
    /\ lastOp' = "open"
    /\ UNCHANGED <<currentPage, pageSize, totalPages, attendeesData,
                   attendeeSearch, pageLabel, prevPageDisabled,
                   nextPageDisabled, toast, backend, register, terminal>>

\* a term is typed in the search box and searchAttendees runs, lines 355-358
searchAttendees(term) ==
    /\ attendeeSearch' = term
    /\ currentPage' = 1
    /\ loadAttendees(1, pageSize, term)
    /\ lastOp' = "search"
    /\ UNCHANGED <<pageSize, totalPages, attendeesData, pageLabel,
                   prevPageDisabled, nextPageDisabled, toast, backend,
                   register, terminal>>

\* changePage, lines 435-441
changePage(delta) ==
    /\ LET newPage == currentPage + delta
       IN  IF newPage >= 1 /\ newPage <= totalPages
           THEN /\ currentPage' = newPage
                /\ loadAttendees(newPage, pageSize, attendeeSearch)
           ELSE UNCHANGED <<currentPage, loadingRowShown, loads>>
    /\ lastOp' = "changePage"
    /\ UNCHANGED <<pageSize, totalPages, attendeesData, attendeeSearch,
                   pageLabel, prevPageDisabled, nextPageDisabled, toast,
                   backend, register, terminal>>

\* a size is chosen in the select and changePageSize runs, lines 443-450
changePageSize(newSize) ==
    /\ IF newSize # pageSize
       THEN /\ pageSize' = newSize
            /\ currentPage' = 1
            /\ loadAttendees(1, newSize, attendeeSearch)
       ELSE UNCHANGED <<pageSize, currentPage, loadingRowShown, loads>>
    /\ lastOp' = "changePageSize"
    /\ UNCHANGED <<totalPages, attendeesData, attendeeSearch, pageLabel,
                   prevPageDisabled, nextPageDisabled, toast, backend,
                   register, terminal>>

\* updatePagination, lines 424-433, for the list just stored
updatePagination(data) ==
    LET total == Ceil(Len(data), pageSize)
    IN  /\ totalPages' = total
        /\ pageLabel' = [currentPage |-> currentPage, totalPages |-> total]
        /\ prevPageDisabled' = (currentPage <= 1)
        /\ nextPageDisabled' = (currentPage >= total)

\* the rest of loadAttendees, lines 235-263, for the request q: "ok" is a
\* 2xx answer, "mock" a failure on localhost (demo data), "failed" a
\* failure elsewhere
LoadAttendeesDone(q, outcome) ==
    /\ q \in loads
    /\ loads' = loads \ {q}
    /\ loadingRowShown' = FALSE
    /\ lastOp' = outcome
    /\ CASE outcome = "ok" ->
              LET data == Slice(Matching(backend, q.search), q.skip, q.limit)
              IN  /\ attendeesData' = data
                  /\ updatePagination(data)
                  /\ UNCHANGED toast
         [] outcome = "mock" ->
              /\ attendeesData' = getMockAttendees
              /\ toast' = "Using demo data"
              /\ UNCHANGED <<totalPages, pageLabel, prevPageDisabled,
                             nextPageDisabled>>
         [] OTHER ->
              /\ toast' = "Error loading attendees"
              /\ UNCHANGED <<attendeesData, totalPages, pageLabel,
                             prevPageDisabled, nextPageDisabled>>
    /\ UNCHANGED <<currentPage, pageSize, attendeeSearch, backend, register,
                   terminal>>

\* attendees are added to or removed from the backend by other clients
BackendChanges(n) ==
    /\ n # backend
    /\ backend' = n
    /\ UNCHANGED <<currentPage, pageSize, totalPages, attendeesData,
                   attendeeSearch, loadingRowShown, pageLabel,
                   prevPageDisabled, nextPageDisabled, toast, loads, lastOp,
                   register, terminal>>

NextAdmin ==
    \/ ShowAttendees
    \/ \E term \in SearchTerms : searchAttendees(term)
    \/ \E delta \in {-1, 1} : changePage(delta)
    \/ \E size \in PageSizeOptions : changePageSize(size)
    \/ \E q \in loads, o \in LoadOutcomes : LoadAttendeesDone(q, o)
    \/ \E n \in 0 .. MaxAttendees : BackendChanges(n)

SpecAdmin == Init /\ [][NextAdmin]_vars

TypeOK ==
    /\ isBlinking \in BOOLEAN
    /\ livenessConfirmed \in BOOLEAN
    /\ BagCardinality(inflight) <= MaxInFlight
    /\ round \in 0..MaxRetakes

(***************************************************************************)
(* States of the CaptureController, as the page shows them                 *)
(***************************************************************************)
Frozen == ~stepPreviewHidden
Submitting == requests # EmptyBag
Done == ~step3Hidden
Detecting == pc = "running" /\ ~step2Hidden /\ ~livenessConfirmed

(***************************************************************************)
(* Claims                                                                  *)
(***************************************************************************)

\* C1: within one detection round (from the start, or from a retake, to the
\* next retake) at most one BlinkEvent is raised, so captureAndPreview is
\* scheduled at most once, also by ticks that were suspended awaiting
\* landmark inference when liveness was confirmed.
C1_OneBlinkEventPerRound == det.events <= 1

\* C2: while the preview is shown (Frozen), a POST /register is in flight
\* (Submitting) or the success step is shown (Done), neither polling timer
\* is active.
C2_NoTimerOutsideDetecting == (Frozen \/ Submitting \/ Done) => timers = {}

C4_NoStaleConfirmation == lastEvent.raised => ~lastEvent.stale

\* C5: a tick that samples a TooDark brightness (< 50) raises no BlinkEvent
\* whatever its EAR, and while every frame of the session has been TooDark
\* liveness is not confirmed and nothing is captured.
C5_TooDarkSuppressesBlink ==
    /\ lastEvent.raised => lastEvent.bright >= 50
    /\ allDark => /\ ~livenessConfirmed
                  /\ lastEvent = NoEvent
                  /\ det.events = 0
                  /\ timeouts = 0
                  /\ encoding = EmptyBag
                  /\ capturedBlob = NoBlob
                  /\ stepPreviewHidden

\* every frame so far was TooDark and the tick evaluated last had a face
\* with EAR below the threshold: it was suppressed
C5_Witness == allDark /\ det.suppressed /\ Detecting

\* C6: a BlinkEvent is never raised by a tick whose landmarks were computed
\* on a TooDark frame (brightness < 50).
C6_DarkFrameDipNeverConfirms == lastEvent.raised => lastEvent.bright0 >= 50

\* C7: taking the ticks of a detection round in the order in which the
\* detector evaluates them (face present, not TooDark), every maximal run of
\* ticks with EAR < 0.25 raises exactly one BlinkEvent, however many ticks
\* it spans: none of its ticks after the first raises another, and every
\* such run raises one.
C7_OneBlinkEventPerDip ==
    /\ det.runEvents <= 1
    /\ det.runLen >= 1 => det.runEvents = 1
    /\ det.runLen = 0 => det.runEvents = 0

\* a dip that spanned two evaluated ticks and raised one BlinkEvent
C7_Witness == det.runLen = 2 /\ det.runEvents = 1 /\ det.events = 1

\* C8: the BlinkEvent of a round exists from the first evaluated tick with
\* EAR strictly below 0.25 on and not before; every BlinkEvent is raised on
\* an EAR strictly below 0.25; after a tick with EAR 0.25 or above the
\* blinking latch is clear.
C8_FirstDipRaises ==
    /\ (det.events >= 1) <=> det.lowSeen
    /\ lastEvent.raised => lastEvent.ear < 25
    /\ det.runLen = 0 => ~isBlinking

\* a tick below the threshold raised the event, then a tick with EAR
\* exactly 0.25 was evaluated: it raised nothing and cleared the latch
C8_Witness ==
    /\ det.events = 1
    /\ lastEvent.raised
    /\ lastEvent.ear = 18
    /\ det.runLen = 0
    /\ ~isBlinking
    /\ 25 \in EarValues /\ \A e \in EarValues : e >= 25 => e = 25

\* C9: every confirm click issues exactly one POST /register, and the photo
\* it carries is the blob of the last capture; in particular N retakes
\* followed by one confirm click issue one POST.
C9_OnePostPerConfirm ==
    /\ posts = clicks
    /\ \A r \in BagToSet(requests) :
           /\ r.photo # NoBlob
           /\ r.photo = r.captured
           /\ requests[r] = 1

\* after a retake and a fresh capture, the single confirm click has sent one
\* request, carrying the capture made after the retake
C9_Witness ==
    /\ round >= 1
    /\ clicks = 1
    /\ posts = 1
    /\ \E r \in BagToSet(requests) : r.photo = lastCapture /\ r.photo.id >= 2

\* C10: a failed submission (non-2xx response or network error) leaves the
\* controller Frozen: preview step shown, confirm button enabled,
\* capturedBlob still the blob that was submitted.
C10_FailureReturnsToFrozen ==
    [][\A r \in BagToSet(requests), o \in {"rejected", "networkError"} :
          FetchResponse(r, o) =>
              /\ ~stepPreviewHidden'
              /\ ~confirmDisabled'
              /\ capturedBlob' = r.photo]_vars

\* C11: a confirm click that follows an earlier request with no retake in
\* between (the button is enabled again only by the failure of that
\* request) sends the very blob the earlier request carried: capturedBlob
\* was not replaced by a new capture or encoding in the meantime.
C11_RetryResendsSameBlob ==
    [][(ConfirmClick /\ sent # NoBlob) =>
          /\ capturedBlob = sent
          /\ \E r \in BagToSet(requests') : r.photo = sent]_vars

\* C12: whenever a POST /register is answered with a 2xx status, whatever
\* the body of the response, the success step is shown, the preview step is
\* hidden and the tracks of the camera stream are stopped.
C12_AcceptedGoesToDone ==
    [][\A r \in BagToSet(requests), o \in {"ok", "okBadBody"} :
          FetchResponse(r, o) =>
              /\ ~step3Hidden'
              /\ stepPreviewHidden'
              /\ video'.srcObject = "stopped"]_vars

\* C13: a code whose trimmed length is below 5, typed or taken from the
\* link, is rejected by the handler itself: the page is in CodeEntry with
\* the code step shown and 'Invalid code format' displayed, the detection
\* step stays hidden, no model load is started, no camera is requested and
\* no request is sent.
C13_ShortCodeRejectedLocally ==
    [][\A raw \in RawCodes :
          ((VerifyClick(raw) \/ DOMContentLoaded(raw)) /\ Len(Trim(raw)) < 5) =>
              /\ pc' = "codeEntry"
              /\ msg1' = "Invalid code format"
              /\ ~step1Hidden' /\ step2Hidden'
              /\ ~modelsLoaded'
              /\ video'.srcObject = "none"
              /\ requests' = EmptyBag /\ posts' = 0]_vars

\* a code of six characters as typed and four once trimmed was rejected
C13_Witness ==
    /\ pc = "codeEntry"
    /\ inviteCode = <<"A", "B", "C", "D">>
    /\ msg1 = "Invalid code format"
    /\ ~step1Hidden

\* C14: the frame captureAndPreview draws is the frame that was current at
\* the tick that confirmed liveness: the camera delivered no frame between
\* the latest BlinkEvent and the capture.
C14_CaptureIsConfirmingFrame == [][CaptureTimeout => ~moved]_vars

\* C15: the frame captureAndPreview draws as the photo is never TooDark:
\* its brightness is at least 50.
C15_CapturedFrameIsLit == [][CaptureTimeout => checkBrightness(frame) >= 50]_vars

\* C16: whenever the camera is ready, the detection step is shown and
\* liveness is not confirmed, exactly one blink-polling interval and exactly
\* one brightness-polling interval are active, after the first start and
\* after every retake.
C16_BothDetectorsRunWhileDetecting ==
    Detecting => Cardinality(BlinkTimers) = 1 /\ Cardinality(BrightnessTimers) = 1

\* detection restarted by a retake, with callbacks of the round before
\* still suspended
C16_Witness ==
    /\ Detecting
    /\ round >= 1
    /\ \E t \in BagToSet(inflight) : t.stale
    /\ Cardinality(timers) = 2

\* the stream is not released before the success step is shown, and the
\* preview is shown before that only with the video paused on live tracks
StreamHeld ==
    /\ step3Hidden => video.srcObject # "stopped"
    /\ (Frozen /\ step3Hidden) => (video.paused /\ video.srcObject = "live")

\* C17: the camera is requested at most once; its tracks are not stopped
\* before Done; while Frozen the video is paused and its tracks are live;
\* a retake resumes playback of the same stream and requests no camera.
C17_StreamHeldUntilDone ==
    [][/\ StreamHeld /\ StreamHeld'
       /\ video.srcObject # "none" => pc' # "getUserMedia"
       /\ pc' = "getUserMedia" /\ pc # pc' => video.srcObject = "none"
       /\ RetakeClick => /\ video'.srcObject = video.srcObject
                         /\ ~video'.paused
                         /\ pc' = pc]_vars

\* a failed submission and then a retake: the preview was shown twice and
\* the same stream plays again
C17_Witness ==
    /\ alert = "Registration Error"
    /\ round >= 1
    /\ step3Hidden
    /\ video = [srcObject |-> "live", paused |-> FALSE]

\* C18: a polling timer exists, or a landmark inference is running or has
\* run, only when both model assets are loaded, the camera stream is set
\* and its metadata is loaded; before that no timer was ever started.
C18_DetectionOnlyWhenReady ==
    /\ (timers # {} \/ inflight # EmptyBag \/ nextId > 1 \/ det # NewDet
            \/ blinkInterval # 0 \/ brightnessCheckInterval # 0) =>
           (pc = "running" /\ modelsLoaded /\ video.srcObject # "none")
    /\ pc \in {"pageLoading", "codeEntry", "loadDetector", "loadLandmarks"} =>
           (~modelsLoaded /\ video.srcObject = "none")
    /\ pc \in {"getUserMedia", "awaitMetadata"} => modelsLoaded

\* detection runs: both timers are active and an inference is in progress
C18_Witness ==
    /\ Detecting
    /\ modelsLoaded
    /\ Cardinality(timers) = 2
    /\ inflight # EmptyBag
    /\ round = 0

\* C19: after a failed model load or camera request the error is displayed
\* and the code-entry step is shown again, so that the verify button can
\* start a new attempt without a page reload.
C19_FailureAllowsRetry == pc = "failed" => (msg2 = "Error" /\ ~step1Hidden)

\* C20: a POST /register is sent only in the step of a confirm click, so
\* the requests sent never outnumber the clicks; a failed response only
\* removes its request; a failed start stays failed, and the model loads
\* and the camera request are started only by a code submission.
C20_NoAutomaticRetry ==
    [][/\ posts <= clicks /\ posts' <= clicks'
       /\ (posts' # posts \/ BagCardinality(requests') > BagCardinality(requests)) =>
              (clicks' = clicks + 1 /\ posts' = posts + 1)
       /\ \A r \in BagToSet(requests), o \in {"okBadBody", "rejected", "networkError"} :
              FetchResponse(r, o) =>
                  /\ requests' = requests (-) SetToBag({r})
                  /\ pc' = pc /\ video' = video /\ modelsLoaded' = modelsLoaded
       /\ pc = "failed" => pc' = "failed"
       /\ (pc' = "loadDetector" /\ pc # pc') => pc \in {"pageLoading", "codeEntry"}
       /\ (pc' = "loadLandmarks" /\ pc # pc') => pc = "loadDetector"]_vars

\* a submission failed: its request is gone, nothing was sent in its place
\* and the button waits for the user
C20_Witness ==
    /\ alert = "Registration Error"
    /\ requests = EmptyBag
    /\ clicks = 1 /\ posts = 1
    /\ ~confirmDisabled
    /\ Frozen

\* C21: while liveness is confirmed (from a BlinkEvent to the next retake)
\* no brightness-polling interval is active and the instruction element
\* keeps the 'Blink Detected! Capturing...' message without the warning
\* class: no lighting guidance overwrites it.
C21_BlinkMessageTakesPrecedence ==
    livenessConfirmed =>
        /\ BrightnessTimers = {}
        /\ instruction = "Blink Detected! Capturing..."
        /\ "warning" \notin instructionClass

\* liveness was confirmed after a lighting warning had been shown, and the
\* scene is dark again while the capture is awaited
C21_Witness ==
    /\ livenessConfirmed
    /\ lastEvent.raised
    /\ timeouts > 0
    /\ checkBrightness(frame) < 50
    /\ instruction = "Blink Detected! Capturing..."

\* C22: a retake click sets capturedBlob to null, clears livenessConfirmed
\* and the blinking latch, resumes the video, leaves one interval of each
\* kind active (the ones the handles name), and changes neither the invite
\* code, nor modelsLoaded, nor the stream of the video.
C22_RetakeRestartsDetection ==
    [][RetakeClick =>
          /\ capturedBlob' = NoBlob
          /\ ~livenessConfirmed' /\ ~isBlinking'
          /\ ~video'.paused
          /\ timers' = {[id |-> brightnessCheckInterval', kind |-> "brightness"],
                        [id |-> blinkInterval', kind |-> "blink"]}
          /\ stepPreviewHidden' /\ ~step2Hidden'
          /\ inviteCode' = inviteCode
          /\ modelsLoaded' = modelsLoaded
          /\ video'.srcObject = video.srcObject]_vars

\* after a retake from the preview: detection runs again, nothing is
\* captured, the code and the models are the ones of the first round
C22_Witness ==
    /\ round >= 1
    /\ Detecting
    /\ capturedBlob = NoBlob
    /\ ~isBlinking
    /\ Cardinality(timers) = 2
    /\ Len(inviteCode) >= 5
    /\ modelsLoaded
    /\ video = [srcObject |-> "live", paused |-> FALSE]

\* C23: the two model loads are started at most once in a session: the
\* first is started only from the page load or the code step, the second
\* only after the first, and once a code has been accepted the page never
\* returns to the code step from which another load could start.
C23_ModelsLoadedAtMostOnce ==
    [][/\ (pc' = "loadDetector" /\ pc # "loadDetector") =>
              (pc \in {"pageLoading", "codeEntry"} /\ ~modelsLoaded)
       /\ (pc' = "loadLandmarks" /\ pc # "loadLandmarks") =>
              (pc = "loadDetector" /\ ~modelsLoaded)
       /\ pc \notin {"pageLoading", "codeEntry"} =>
              pc' \notin {"pageLoading", "codeEntry"}
       /\ modelsLoaded => modelsLoaded']_vars

\* a rejected code, then an accepted one, a retake and a submission: the
\* models are loaded and the loading steps are behind
C23_Witness ==
    /\ msg1 = "Invalid code format"
    /\ modelsLoaded
    /\ pc = "running"
    /\ round >= 1
    /\ posts >= 1

\* C24: every request in flight carries the current invite code, which is
\* trimmed and at least 5 characters long, and once a code has been
\* accepted (the code step is hidden) the invite code never changes.
C24_InviteCodeImmutable ==
    [][/\ \A r \in BagToSet(requests') :
              /\ r.code = inviteCode'
              /\ Len(r.code) >= 5
              /\ r.code = Trim(r.code)
       /\ step1Hidden => inviteCode' = inviteCode]_vars

\* a code was rejected first; after a failed submission and a retake the
\* second submission carries the accepted code
C24_Witness ==
    /\ msg1 = "Invalid code format"
    /\ alert = "Registration Error"
    /\ round >= 1
    /\ posts = 2
    /\ \E r \in BagToSet(requests) : r.code = <<"A", "B", "C", "D", "E">>

\* C25: every sample the brightness-polling callback takes while liveness
\* is not confirmed writes the guidance of its level: below 50 the TooDark
\* text with the warning class, from 50 to 79 the Suboptimal text with the
\* warning class, from 80 on the Good text without the warning class.
C25_GuidanceMatchesLevel ==
    [][(BrightnessTick /\ ~livenessConfirmed) =>
          LET b == frame.bright
          IN  /\ b < 50 =>
                     (instruction' = "Too Dark!" /\ "warning" \in instructionClass')
              /\ (50 <= b /\ b < 80) =>
                     (instruction' = "Lighting could be better"
                        /\ "warning" \in instructionClass')
              /\ b >= 80 =>
                     (instruction' = "Please look into the camera and blink"
                        /\ "warning" \notin instructionClass')
              /\ "error" \notin instructionClass']_vars

\* a sample of exactly 50 was classified Suboptimal
C25_Witness ==
    /\ frame.bright = 50
    /\ allDark = FALSE
    /\ instruction = "Lighting could be better"
    /\ instructionClass = {"warning"}

\* a human-readable error is on display after the step: the start error
\* of msg2, the registration error of the alert, or an error text in the
\* instruction element
ErrorShown ==
    \/ msg2' = "Error"
    \/ alert' = "Registration Error"
    \/ instruction' \notin {instruction, "Blink Detected! Capturing...",
                             "Loading AI Models...", "Too Dark!",
                             "Lighting could be better",
                             "Please look into the camera and blink"}

\* C26: every failing step (a model load that fails, a refused camera, an
\* encoding that yields no blob, a submission that fails or cannot be
\* parsed) leaves an error message on display.
C26_NoErrorSwallowed ==
    [][/\ LoadDetectorDone(FALSE) => ErrorShown
       /\ LoadLandmarksDone(FALSE) => ErrorShown
       /\ GetUserMediaDone(FALSE) => ErrorShown
       /\ \A e \in BagToSet(encoding) :
              ToBlobCallbackNull(e) => ErrorShown
       /\ \A r \in BagToSet(requests), o \in {"okBadBody", "rejected", "networkError"} :
              FetchResponse(r, o) => ErrorShown]_vars

\* a step of the page that ends with the code-entry step shown and usable
ShowsCodeEntry == Next /\ ~step1Hidden' /\ pc' = "codeEntry"

\* C27: when the server rejects a submission, the page can go back to the
\* code step: in the state the rejection leaves, the code-entry step is
\* shown or a step that shows it is possible.
C27_RejectionCanReturnToCodeEntry ==
    [][\A r \in BagToSet(requests) :
          FetchResponse(r, "rejected") =>
              (~step1Hidden \/ ENABLED ShowsCodeEntry)']_vars

\* the code-entry step, once hidden, is never shown again
CodeEntryNeverReturns == [][step1Hidden => step1Hidden']_vars

\* the pixels of an image that a stride of ten pixels visits
SampledPixels(data) == {p \in 0 .. (Len(data) \div 4) - 1 : p % 10 = 0}

\* 0.299R + 0.587G + 0.114B of pixel p, in thousandths
Luminance(data, p) ==
    299 * data[4 * p + 1] + 587 * data[4 * p + 2] + 114 * data[4 * p + 3]

RECURSIVE SumLuminance(_, _)
SumLuminance(data, pixels) ==
    IF pixels = {} THEN 0
    ELSE LET p == CHOOSE q \in pixels : TRUE
         IN  Luminance(data, p) + SumLuminance(data, pixels \ {p})

\* C28: the sample computed on the frame equals the sum of the luminances
\* of the sampled pixels divided by their number, and so lies between the
\* smallest and the largest of them and within 0..255.
C28_SampleIsMeanOfSampledPixels ==
    LET d == frame.data
        S == SampledPixels(d)
        r == avgBrightness(d)
    IN  /\ r.num * Cardinality(S) = SumLuminance(d, S) * r.den
        /\ \E lo \in S, hi \in S :
               /\ Luminance(d, lo) * r.den <= r.num
               /\ r.num <= Luminance(d, hi) * r.den
        /\ r.num <= 255000 * r.den

\* C29: a blink tick that detected no face leaves the latch, the liveness
\* flag, the interval handles, the timers, the captured blob, the page and
\* the scheduled captures as they are, and raises no BlinkEvent.
C29_NoFaceTickChangesNothing ==
    [][\A t \in BagToSet(inflight) :
          (BlinkTickResume(t) /\ t.faces = << >>) =>
              /\ UNCHANGED <<globals, dom, pc, timers, nextId, timeouts,
                             encoding, nextBlob, requests>>
              /\ lastEvent' = lastEvent
              /\ det'.events = det.events]_vars

\* the tick evaluated last detected no face while the latch was set, and
\* the latch is still set
C29_Witness == det.heldLatch /\ isBlinking

\* C30: what a tick with at least one face does is decided by the first
\* detected face, the brightness it samples and the latch alone: it raises
\* a BlinkEvent iff the sample is not TooDark, the EAR of the first face is
\* below 0.25 and the latch is clear, and it leaves the latch set iff the
\* EAR of the first face is below 0.25 (unchanged when TooDark), whatever
\* the other faces are.
C30_FirstFaceDecides ==
    [][\A t \in BagToSet(inflight) :
          (BlinkTickResume(t) /\ t.faces # << >>) =>
              LET first == t.faces[1]
                  b == frame.bright
              IN  /\ (timeouts' = timeouts + 1 /\ livenessConfirmed')
                         <=> (b >= 50 /\ first < 25 /\ ~isBlinking)
                  /\ timeouts' \in {timeouts, timeouts + 1}
                  /\ livenessConfirmed' =
                         (livenessConfirmed \/ (b >= 50 /\ first < 25 /\ ~isBlinking))
                  /\ isBlinking' = IF b < 50 THEN isBlinking ELSE first < 25]_vars

\* every frame with a face shows two; a tick raised the BlinkEvent on a
\* first face of EAR 0.18, all ticks are evaluated, and the frame on show
\* has a blinking first face and a second face with open eyes
C30_Witness ==
    /\ lastEvent.raised
    /\ lastEvent.ear = 18
    /\ det.events = 1
    /\ frame.faces = <<18, 25>>
    /\ inflight = EmptyBag
\* C31: at most one POST /register is in flight at any time, and while one
\* is in flight the confirm button is disabled
C31_OneSubmissionInFlight ==
    /\ BagCardinality(requests) <= 1
    /\ Submitting => confirmDisabled

\* a submission is pending while the preview shows a newer photo than the
\* one that was sent (retake and a second capture during the request): the
\* confirm button is on the screen with something new to send
C31_Witness ==
    /\ Submitting
    /\ Frozen
    /\ capturedBlob # NoBlob
    /\ capturedBlob # sent
    /\ \A r \in BagToSet(requests) : r.photo # capturedBlob

\* C32: once a POST /register has been answered with a 2xx status (the
\* server accepted the enrollment), no step of the session sends another
\* POST /register.
C32_NoPostAfterAcceptance ==
    [][accepted => (posts' = posts /\ BagCardinality(requests') <= BagCardinality(requests))]_vars

\* C33: whenever the preview step is displayed, capturedBlob is non-null
\* and is the blob the preview image shows.
C33_PreviewShowsCapturedBlob ==
    Frozen => (capturedBlob # NoBlob /\ capturedBlob = previewImg)

\* C34: every BlinkEvent is eventually followed by Frozen: once liveness is
\* confirmed the preview step is eventually shown.
C34_BlinkEventLeadsToFrozen == livenessConfirmed ~> Frozen

\* C39: in every reachable state of the register page the blinking latch
\* implies the liveness flag.
C39_LatchImpliesLiveness == isBlinking => livenessConfirmed

\* after a retake reset both, a blink of the new round set the latch again
\* together with the liveness flag
C39_Witness ==
    /\ round > 0
    /\ isBlinking
    /\ livenessConfirmed
    /\ lastEvent.raised
    /\ det.events = 1

\* C35: in the access-check terminal a clear timeout removes a displayed
\* result only when that result has been on display for 5 seconds.
C35_ResultVisibleFiveSeconds ==
    [][\A due \in clearTimers :
          (ClearTimeout(due) /\ resultDiv # "") => now >= shownAt + ClearDelay]_vars

\* C36: in the access-check terminal at most one check is pending (photo
\* being encoded or request in flight), and the check button is disabled
\* exactly while one is pending: from the click to the outcome, and
\* enabled again after every outcome.
C36_CheckButtonFollowsCheck ==
    /\ encodingPhoto + checking <= 1
    /\ checkBtnDisabled <=> (encodingPhoto + checking = 1)

\* a check ended in an error and the button is enabled again, with no
\* check pending
C36_Witness ==
    /\ checkBtnShown
    /\ resultDiv = "ERROR"
    /\ ~checkBtnDisabled
    /\ encodingPhoto + checking = 0
    /\ now > 0

\* C37: in the admin attendee list, when the backend holds more than
\* pageSize attendees and the first page has just been loaded (no search
\* term, no request pending), changePage(+1) moves to page 2 and requests
\* it.
C37_SecondPageReachable ==
    [][(/\ changePage(1)
        /\ lastOp = "ok"
        /\ loads = {}
        /\ attendeeSearch = ""
        /\ currentPage = 1
        /\ backend > pageSize
        /\ attendeesData = Slice(Attendees(backend), 0, pageSize))
       => (/\ currentPage' = 2
           /\ [skip |-> pageSize, limit |-> pageSize, search |-> ""] \in loads')]_vars

\* C38: in the admin attendee list 1 <= currentPage <= totalPages in every
\* state, also after an empty list was loaded.
C38_CurrentPageWithinTotal ==
    1 <= currentPage /\ currentPage <= totalPages

=============================================================================
